---- MODULE Spec2Model ----
(***************************************************************************)
(* Model of the departure logout menu: the click handler of an action      *)
(* button, the confirmation dialog, the command executor and the key       *)
(* handler of the main window (src/src/ui/mod.rs), over the configured     *)
(* action list (src/src/config/mod.rs).                                    *)
(***************************************************************************)
EXTENDS Integers, Sequences, FiniteSets, TLC

\* actions   : Config.actions, the configured list, read-only during a run
\* dialogs   : the open confirmation dialogs, each the index of the action
\*             show_confirmation_dialog was called with, in opening order
\* quit      : app.quit() has been called (the main loop dispatches no more)
\* execLog   : the calls of execute_action so far, each with the action
\*             index and the result of Command::spawn (ok)
\* lastEvent : the event the last handler ran for: its kind, the key
\*             pressed, the action it concerned (for a key: the action the
\*             scan stopped at) and the Propagation a key handler returned
\* layout    : Config.layout, reduced to layout_type and columns
\* plan      : the box tree create_main_layout built: its orientation and
\*             the groups of action buttons (the main box itself for a
\*             linear layout, one group per row box for a grid)
\* theme     : ThemeManager.config, reduced to source and to whether each
\*             optional field is set
\* env       : what the system answers to get_colors: whether the theme file
\*             exists and can be read, whether the theme command runs,
\*             exits with success and prints valid UTF-8, and the text read
\*             from the file or from the command's stdout
\* colors    : the Result get_colors returned
VARIABLES actions, dialogs, quit, execLog, lastEvent, layout, plan,
          theme, env, colors

vars == <<actions, dialogs, quit, execLog, lastEvent, layout, plan,
          theme, env, colors>>

\* the state of the handlers of the running window
uiVars == <<dialogs, quit, execLog, lastEvent>>

\* the state of the layout construction
layoutVars == <<layout, plan>>

\* the state of the theme resolution
themeVars == <<theme, env, colors>>

(* ------------------------------ bounds --------------------------------- *)

\* longest configured action list explored
MaxActions == 2

\* most calls of execute_action explored in one run
MaxExec == 2

\* longest action list the layout is explored with
MaxLayoutActions == 7

\* largest configured column count the layout is explored with
MaxColumns == 4

\* longest theme text explored, in tokens
MaxContentLen == 5

\* most entries of a JSON object explored (besides a forced "primary")
MaxJsonEntries == 2

(* --------------------------- configuration ----------------------------- *)

\* Option::None of ActionConfig.keybind and of gdk::Key::name()
None == "<none>"

\* the key the handler compares with gdk::Key::Escape
Escape == "Escape"

\* a key value for which gdk::Key::name() returns None
NoNameKey == "<noname>"

\* key values the window can receive (gdk key names are case sensitive:
\* "l" and "L" are different key values, the close key is named "Escape")
KeyVals == {"l", "L", Escape, "x", NoNameKey}

\* values of ActionConfig.keybind explored
Keybinds == {None, "l", "L", Escape}

\* ActionConfig, reduced to the fields the handlers branch on
ActionConfig == [keybind : Keybinds, confirm : BOOLEAN]

RECURSIVE SeqsUpTo(_, _)
SeqsUpTo(S, n) ==
    IF n = 0 THEN {<<>>}
    ELSE LET shorter == SeqsUpTo(S, n - 1)
         IN  shorter \cup {Append(s, x) : s \in {t \in shorter : Len(t) = n - 1}, x \in S}

\* str::to_lowercase over the key names and keybinds of the model
to_lowercase(s) ==
    CASE s = "L" -> "l"
      [] s = "Escape" -> "escape"
      [] OTHER -> s

\* key.name().map(|s| s.to_string().to_lowercase())
key_name(key) == IF key = NoNameKey THEN None ELSE to_lowercase(key)


(* ------------------------------ layout --------------------------------- *)

\* Option<u32>: <<>> is None, <<c>> is Some(c)
Some(x) == <<x>>

\* self.config.layout.columns.unwrap_or(3)
DefaultColumns == 3

unwrap_or(opt, dflt) == IF opt = <<>> THEN dflt ELSE opt[1]

\* values of LayoutConfig.layout_type explored ("circle" is not a known kind)
LayoutTypes == {"horizontal", "vertical", "grid", "circle"}

\* LayoutConfig, reduced to the fields the layout branches on
LayoutConfig ==
    [layout_type : LayoutTypes,
     columns : {<<>>} \cup {Some(c) : c \in 0..MaxColumns}]

\* LayoutConfig::default()
DefaultLayout == [layout_type |-> "horizontal", columns |-> Some(3)]

\* match self.config.layout.layout_type.as_str() of create_main_layout
orientation_of(layout_type) ==
    IF layout_type = "vertical" THEN "Vertical" ELSE "Horizontal"

\* create_linear_layout: every button is appended to the container itself
create_linear_layout(acts) == <<[i \in 1..Len(acts) |-> i]>>

\* the loop of create_grid_layout from the i-th action on: rows are the row
\* boxes appended to the container so far, current_column the loop counter.
\* (current_column + 1) % columns panics for columns = 0.
RECURSIVE grid_loop_no_wrap(_, _, _, _, _)
grid_loop_no_wrap(acts, columns, rows, current_column, i) ==
    IF i > Len(acts) THEN [status |-> "ok", groups |-> rows]
    ELSE LET opened == IF current_column = 0 THEN Append(rows, <<>>) ELSE rows
             filled == [opened EXCEPT ![Len(opened)] = Append(@, i)]
         IN  IF columns = 0
             THEN [status |-> "panic", groups |-> filled]
             ELSE grid_loop_no_wrap(acts, columns, filled,
                                    (current_column + 1) % (columns + 1), i + 1)

RECURSIVE grid_loop(_, _, _, _, _)
grid_loop(acts, columns, rows, current_column, i) ==
    IF i > Len(acts) THEN [status |-> "ok", groups |-> rows]
    ELSE LET opened == IF current_column = 0 THEN Append(rows, <<>>) ELSE rows
             filled == [opened EXCEPT ![Len(opened)] = Append(@, i)]
         IN  IF columns = 0
             THEN [status |-> "panic", groups |-> filled]
             ELSE grid_loop(acts, columns, filled,
                            (current_column + 1) % columns, i + 1)

\* create_grid_layout
create_grid_layout(acts, lay) ==
    grid_loop(acts, unwrap_or(lay.columns, DefaultColumns), <<>>, 0, 1)

\* create_main_layout: the box it returns, or the panic that ends it
create_main_layout_always_linear(acts, lay) ==
    [status |-> "ok", orientation |-> orientation_of(lay.layout_type),
     groups |-> create_linear_layout(acts)]

create_main_layout(acts, lay) ==
    IF lay.layout_type = "grid"
    THEN LET g == create_grid_layout(acts, lay)
         IN  [status |-> g.status,
              orientation |-> orientation_of(lay.layout_type),
              groups |-> g.groups]
    ELSE [status |-> "ok", orientation |-> orientation_of(lay.layout_type),
          groups |-> create_linear_layout(acts)]

\* before show() has built the layout
NoPlan == [status |-> "pending", orientation |-> "Horizontal", groups |-> <<>>]

\* the action lists the layout is explored with: n actions, told apart by
\* their keybind and confirm fields where the model's ActionConfig allows
LayoutActions(n) ==
    [i \in 1..n |-> [keybind |-> IF i % 2 = 1 THEN "l" ELSE None,
                     confirm |-> (i % 3 = 0)]]


(* ------------------------------- theme --------------------------------- *)

\* A string is a sequence of tokens; <<>> is the empty string.  A token is a
\* character of a theme text or an indivisible piece of text.

\* the built-in defaults of parse_json_colors and parse_simple_colors, which
\* are those of ManualColors::default()
DefaultColors ==
    [background |-> <<"rgba(30, 30, 46, 0.8)">>,
     primary |-> <<"#89b4fa">>,
     secondary |-> <<"#74c7ec">>,
     text |-> <<"#cdd6f4">>,
     danger |-> <<"#f38ba8">>]

\* a ManualColors of the configuration that differs from the defaults
CustomColors ==
    [background |-> <<"#000">>, primary |-> <<"#111">>, secondary |-> <<"#222">>,
     text |-> <<"#333">>, danger |-> <<"#444">>]

\* Result<ThemeColors>: Ok(colors) and Err(kind); the kind stands for the
\* message of the anyhow error
Ok(c) == [status |-> "ok", err |-> "-", colors |-> c]

\* the colors field of a Result that carries none
NoColors ==
    [background |-> <<>>, primary |-> <<>>, secondary |-> <<>>, text |-> <<>>,
     danger |-> <<>>]

Err(kind) == [status |-> "err", err |-> kind, colors |-> NoColors]

(* JSON values, as far as extract_color looks into them: a string, an object
   whose "hex" member is a string, an object whose "hex" member is something
   else, an object without "hex", and any other value (null, number, bool,
   array).  An object is a function from its keys to values. *)
JString(s) == [kind |-> "string", str |-> s]

JHexObject(s) == [kind |-> "hex_object", str |-> s]

JBadHexObject == [kind |-> "object_hex_not_string", str |-> <<>>]

JPlainObject == [kind |-> "object_no_hex", str |-> <<>>]

JOther == [kind |-> "other", str |-> <<>>]

EmptyObject == <<>>

\* value.as_str()
as_str(value) == IF value.kind = "string" THEN Some(value.str) ELSE <<>>

\* value.get("hex") followed by hex.as_str()
hex_as_str(value) == IF value.kind = "hex_object" THEN Some(value.str) ELSE <<>>

\* extract_color: the first key of keys whose value is a string or carries a
\* string "hex", else the default
RECURSIVE extract_color_first_present(_, _, _)
extract_color_first_present(json, keys, default) ==
    IF keys = <<>> THEN default
    ELSE LET key == Head(keys)
         IN  IF key \in DOMAIN json
             THEN IF as_str(json[key]) # <<>> THEN as_str(json[key])[1]
                  ELSE IF hex_as_str(json[key]) # <<>> THEN hex_as_str(json[key])[1]
                  ELSE default
             ELSE extract_color_first_present(json, Tail(keys), default)

RECURSIVE extract_color(_, _, _)
extract_color(json, keys, default) ==
    IF keys = <<>> THEN default
    ELSE LET key == Head(keys)
         IN  IF key \in DOMAIN json
             THEN IF as_str(json[key]) # <<>> THEN as_str(json[key])[1]
                  ELSE IF hex_as_str(json[key]) # <<>> THEN hex_as_str(json[key])[1]
                  ELSE extract_color(json, Tail(keys), default)
             ELSE extract_color(json, Tail(keys), default)

\* parse_json_colors on a parsed document: root is the members of the root
\* value (none when it is no object), colors_kind tells whether it has a
\* "colors" member and whether that is an object, colors is its members
parse_json_colors(doc) ==
    IF doc.colors_kind # "absent" /\ "primary" \in DOMAIN doc.colors
    THEN Ok([background |-> extract_color(doc.colors, <<"surface", "background">>,
                                          DefaultColors.background),
             primary |-> extract_color(doc.colors, <<"primary">>, DefaultColors.primary),
             secondary |-> extract_color(doc.colors, <<"secondary", "tertiary">>,
                                         DefaultColors.secondary),
             text |-> extract_color(doc.colors, <<"on_surface", "on_background", "text">>,
                                    DefaultColors.text),
             danger |-> extract_color(doc.colors, <<"error", "danger">>,
                                      DefaultColors.danger)])
    ELSE Ok([background |-> extract_color(doc.root, <<"background">>, DefaultColors.background),
             primary |-> extract_color(doc.root, <<"primary">>, DefaultColors.primary),
             secondary |-> extract_color(doc.root, <<"secondary">>, DefaultColors.secondary),
             text |-> extract_color(doc.root, <<"text">>, DefaultColors.text),
             danger |-> extract_color(doc.root, <<"danger">>, DefaultColors.danger)])


(* Theme text: a sequence of tokens.  "\n", " ", "#", "=", "\"" and "'" are
   the characters the line parser looks at; "primary" and "DANGER" are words
   of letters. *)
Newline == "\n"

Space == " "

Tokens == {Newline, Space, "#", "=", "\"", "'", "primary", "DANGER"}

\* str::to_lowercase of a word of the theme text
lower_token(t) == IF t = "DANGER" THEN "danger" ELSE t

lower_str(str) == [i \in DOMAIN str |-> lower_token(str[i])]

\* position of the first / last token of str that equals t, 0 if none
RECURSIVE find_token(_, _, _)
find_token(str, t, i) ==
    IF i > Len(str) THEN 0
    ELSE IF str[i] = t THEN i
    ELSE find_token(str, t, i + 1)

RECURSIVE rfind_token(_, _, _)
rfind_token(str, t, i) ==
    IF i < 1 THEN 0
    ELSE IF str[i] = t THEN i
    ELSE rfind_token(str, t, i - 1)

\* str::trim_matches: drop the tokens of set at both ends
RECURSIVE trim_start(_, _)
trim_start(str, set) ==
    IF str # <<>> /\ Head(str) \in set THEN trim_start(Tail(str), set) ELSE str

RECURSIVE trim_end(_, _)
trim_end(str, set) ==
    IF str # <<>> /\ str[Len(str)] \in set
    THEN trim_end(SubSeq(str, 1, Len(str) - 1), set)
    ELSE str

trim_matches(str, set) == trim_end(trim_start(str, set), set)

\* str::trim: whitespace at both ends
trim(str) == trim_matches(str, {Space, Newline})

\* str::lines: the pieces between newlines, without a last empty piece
RECURSIVE lines(_)
lines(str) ==
    IF str = <<>> THEN <<>>
    ELSE LET p == find_token(str, Newline, 1)
         IN  IF p = 0 THEN <<str>>
             ELSE <<SubSeq(str, 1, p - 1)>> \o lines(SubSeq(str, p + 1, Len(str)))

\* line.split_once('='): <<>> for None, <<key, value>> for Some
split_once_last(line) ==
    LET p == rfind_token(line, "=", Len(line))
    IN  IF p = 0 THEN <<>>
        ELSE <<SubSeq(line, 1, p - 1), SubSeq(line, p + 1, Len(line))>>

split_once(line) ==
    LET p == find_token(line, "=", 1)
    IN  IF p = 0 THEN <<>>
        ELSE <<SubSeq(line, 1, p - 1), SubSeq(line, p + 1, Len(line))>>

\* the body of the loop of parse_simple_colors for one line
parse_line(c, raw) ==
    LET line == trim(raw)
    IN  IF line = <<>> \/ Head(line) = "#" THEN c
        ELSE LET kv == split_once(line)
             IN  IF kv = <<>> THEN c
                 ELSE LET key == lower_str(trim(kv[1]))
                          value == trim_matches(trim_matches(trim(kv[2]), {"\""}), {"'"})
                      IN  CASE key = <<"background">> -> [c EXCEPT !.background = value]
                            [] key = <<"primary">> -> [c EXCEPT !.primary = value]
                            [] key = <<"secondary">> -> [c EXCEPT !.secondary = value]
                            [] key = <<"text">> -> [c EXCEPT !.text = value]
                            [] key = <<"danger">> -> [c EXCEPT !.danger = value]
                            [] OTHER -> c

RECURSIVE parse_lines(_, _)
parse_lines(c, ls) ==
    IF ls = <<>> THEN c ELSE parse_lines(parse_line(c, Head(ls)), Tail(ls))

\* parse_simple_colors
parse_simple_colors(str) == Ok(parse_lines(DefaultColors, lines(str)))

(* The text of a theme file or of a theme command's output: either a JSON
   document, given by what parse_json_colors reads of it, or a text of
   tokens. *)
JsonDoc(root, colors_kind, colors_members) ==
    [form |-> "json", tokens |-> <<>>, root |-> root,
     colors_kind |-> colors_kind, colors |-> colors_members]

TextDoc(str) ==
    [form |-> "text", tokens |-> str, root |-> EmptyObject,
     colors_kind |-> "absent", colors |-> EmptyObject]

\* a text of tokens that is a JSON string literal: a quote, no quote and no
\* newline inside, a quote, with whitespace around
is_json_string(str) ==
    LET t == trim(str)
    IN  /\ Len(t) >= 2
        /\ t[1] = "\"" /\ t[Len(t)] = "\""
        /\ \A i \in 2..(Len(t) - 1) : t[i] \notin {"\"", Newline}

\* serde_json::from_str::<serde_json::Value>: <<>> for Err, <<doc>> for Ok
from_str(content) ==
    IF content.form = "json" THEN Some(content)
    ELSE IF is_json_string(content.tokens)
    THEN Some(JsonDoc(EmptyObject, "absent", EmptyObject))
    ELSE <<>>

\* "Try to parse as JSON first", then "as simple key-value pairs"
parse_content(content) ==
    IF from_str(content) # <<>>
    THEN parse_json_colors(from_str(content)[1])
    ELSE parse_simple_colors(content.tokens)

\* get_manual_colors
get_manual_colors_or_default(cfg) ==
    IF cfg.manual_colors = <<>> THEN Ok(DefaultColors) ELSE Ok(cfg.manual_colors[1])

get_manual_colors(cfg) ==
    IF cfg.manual_colors = <<>> THEN Err("MissingManualColors")
    ELSE Ok(cfg.manual_colors[1])

\* get_system_colors
get_system_colors == Ok(DefaultColors)

\* get_file_colors
get_file_colors(cfg, e) ==
    IF cfg.file_path = <<>> THEN Err("MissingFilePath")
    ELSE IF ~e.file_exists THEN Err("FileNotFound")
    ELSE IF ~e.read_ok THEN Err("IOError")
    ELSE parse_content(e.content)

\* get_command_colors
get_command_colors(cfg, e) ==
    IF cfg.command = <<>> THEN Err("MissingCommand")
    ELSE IF ~e.spawn_ok THEN Err("IOError")
    ELSE IF ~e.exit_ok THEN Err("CommandFailed")
    ELSE IF ~e.utf8_ok THEN Err("IOError")
    ELSE parse_content(e.content)

\* get_colors
get_colors(cfg, e) ==
    CASE cfg.source = "manual" -> get_manual_colors(cfg)
      [] cfg.source = "system" -> get_system_colors
      [] cfg.source = "file" -> get_file_colors(cfg, e)
      [] cfg.source = "command" -> get_command_colors(cfg, e)
      [] OTHER -> Err("UnknownSource")

\* values of ThemeConfig.source explored ("auto" is not a known source)
Sources == {"manual", "system", "file", "command", "auto"}

\* ThemeConfig, reduced to the fields get_colors reads
ThemeConfig ==
    [source : Sources,
     manual_colors : {<<>>, Some(DefaultColors), Some(CustomColors)},
     file_path : {<<>>, Some("theme.json")},
     command : {<<>>, Some("matugen")}]

\* ThemeConfig::default()
DefaultTheme ==
    [source |-> "manual", manual_colors |-> Some(DefaultColors),
     file_path |-> <<>>, command |-> <<>>]

\* an environment in which the file is there and the command works
EnvWith(content) ==
    [file_exists |-> TRUE, read_ok |-> TRUE, spawn_ok |-> TRUE, exit_ok |-> TRUE,
     utf8_ok |-> TRUE, content |-> content]

DefaultEnv == EnvWith(TextDoc(<<>>))

\* before get_colors has been called
NoResult == [status |-> "pending", err |-> "-", colors |-> NoColors]

(* ------------------------------ events --------------------------------- *)

NoEvent == [kind |-> "none", key |-> None, idx |-> 0, ret |-> "-"]

Event(kind, key, idx, ret) == [kind |-> kind, key |-> key, idx |-> idx, ret |-> ret]

\* Dialog::builder().modal(true): while a confirmation dialog is open GTK
\* delivers no click and no key press to the main window
Modal_off == FALSE

Modal == TRUE

\* the main window's handlers can run: the main loop has not been told to
\* quit and no modal dialog holds the input
MainWindowInput == ~quit /\ (Modal => dialogs = <<>>)

\* execute_action may be entered (bound on the length of a run)
CanExec == Len(execLog) < MaxExec

Init ==
    /\ actions \in SeqsUpTo(ActionConfig, MaxActions)
    /\ dialogs = <<>>
    /\ quit = FALSE
    /\ execLog = <<>>
    /\ lastEvent = NoEvent
    /\ layout = DefaultLayout
    /\ plan = create_main_layout(actions, layout)
    /\ theme = DefaultTheme
    /\ env = DefaultEnv
    /\ colors = get_colors(theme, env)

\* execute_action: spawn `sh -c command`; Ok => app.quit(), Err => log only.
\* ok is the result of Command::spawn, decided by the environment.
execute_action_never_quits(i, ok) ==
    /\ execLog' = Append(execLog, [action |-> i, ok |-> ok])
    /\ quit' = quit

execute_action_always_quits(i, ok) ==
    /\ execLog' = Append(execLog, [action |-> i, ok |-> ok])
    /\ quit' = TRUE

execute_action(i, ok) ==
    /\ execLog' = Append(execLog, [action |-> i, ok |-> ok])
    /\ quit' = (quit \/ ok)

\* show_confirmation_dialog: build a dialog for the action and present it
show_confirmation_dialog(i) == dialogs' = Append(dialogs, i)

\* the sequence s without its d-th element
RemoveAt(s, d) == [k \in 1..(Len(s) - 1) |-> IF k < d THEN s[k] ELSE s[k + 1]]

\* button.connect_clicked of create_action_button
Click(i) ==
    /\ MainWindowInput
    /\ i \in 1..Len(actions)
    /\ \/ /\ actions[i].confirm
          /\ show_confirmation_dialog(i)
          /\ UNCHANGED <<quit, execLog>>
       \/ /\ ~actions[i].confirm
          /\ CanExec
          /\ \E ok \in BOOLEAN : execute_action(i, ok)
          /\ UNCHANGED dialogs
    /\ lastEvent' = Event("click", None, i, "-")
    /\ UNCHANGED <<actions, layoutVars, themeVars>>

\* cancel_button.connect_clicked of show_confirmation_dialog
cancel_clicked_keeps_dialog(d) == UNCHANGED <<dialogs, quit, execLog>>

cancel_clicked(d) ==
    /\ dialogs' = RemoveAt(dialogs, d)
    /\ UNCHANGED <<quit, execLog>>

Cancel(d) ==
    /\ ~quit
    /\ d \in 1..Len(dialogs)
    /\ cancel_clicked(d)
    /\ lastEvent' = Event("cancel", None, dialogs[d], "-")
    /\ UNCHANGED <<actions, layoutVars, themeVars>>

\* confirm_button.connect_clicked of show_confirmation_dialog
confirm_clicked_keeps_dialog(d, ok) ==
    /\ execute_action(dialogs[d], ok)
    /\ UNCHANGED dialogs

confirm_clicked_twice(d, ok) ==
    /\ execLog' = Append(Append(execLog, [action |-> dialogs[d], ok |-> ok]),
                         [action |-> dialogs[d], ok |-> ok])
    /\ quit' = (quit \/ ok)
    /\ dialogs' = RemoveAt(dialogs, d)

confirm_clicked(d, ok) ==
    /\ execute_action(dialogs[d], ok)
    /\ dialogs' = RemoveAt(dialogs, d)

Confirm(d) ==
    /\ ~quit
    /\ d \in 1..Len(dialogs)
    /\ CanExec
    /\ \E ok \in BOOLEAN : confirm_clicked(d, ok)
    /\ lastEvent' = Event("confirm", None, dialogs[d], "-")
    /\ UNCHANGED <<actions, layoutVars, themeVars>>

\* if let Some(keybind) = &action.keybind { keybind.to_lowercase() == key_str }
keybind_matches_unbound_too(action, key_str) ==
    action.keybind = None \/ to_lowercase(action.keybind) = key_str

keybind_matches(action, key_str) ==
    action.keybind # None /\ to_lowercase(action.keybind) = key_str

\* for action in &actions { ... return }: index of the action the loop
\* stops at, 0 when the loop runs to its end
RECURSIVE scan_actions_last(_, _, _)
scan_actions_last(acts, key_str, i) ==
    IF i > Len(acts) THEN 0
    ELSE LET later == scan_actions_last(acts, key_str, i + 1)
         IN  IF later # 0 THEN later
             ELSE IF keybind_matches(acts[i], key_str) THEN i ELSE 0

RECURSIVE scan_actions(_, _, _)
scan_actions(acts, key_str, i) ==
    IF i > Len(acts) THEN 0
    ELSE IF keybind_matches(acts[i], key_str) THEN i
    ELSE scan_actions(acts, key_str, i + 1)

\* the closure of controller.connect_key_pressed as a function of the key:
\* matched = action the scan stopped at, execute = action handed to
\* execute_action, quit = app.quit() called by the ESC branch, ret = the
\* Propagation returned
key_pressed_ignores_confirm(acts, key) ==
    LET key_str == key_name(key)
        m == IF key_str = None THEN 0 ELSE scan_actions(acts, key_str, 1)
    IN  IF m # 0
        THEN [matched |-> m, execute |-> m, quit |-> FALSE, ret |-> "Stop"]
        ELSE IF key = Escape
        THEN [matched |-> 0, execute |-> 0, quit |-> TRUE, ret |-> "Stop"]
        ELSE [matched |-> 0, execute |-> 0, quit |-> FALSE, ret |-> "Proceed"]

key_pressed(acts, key) ==
    LET key_str == key_name(key)
        m == IF key_str = None THEN 0 ELSE scan_actions(acts, key_str, 1)
    IN  IF m # 0
        THEN [matched |-> m,
              execute |-> IF acts[m].confirm THEN 0 ELSE m,
              quit |-> FALSE, ret |-> "Stop"]
        ELSE IF key = Escape
        THEN [matched |-> 0, execute |-> 0, quit |-> TRUE, ret |-> "Stop"]
        ELSE [matched |-> 0, execute |-> 0, quit |-> FALSE, ret |-> "Proceed"]

\* controller.connect_key_pressed of setup_keyboard_shortcuts
KeyPress(key) ==
    /\ MainWindowInput
    /\ key \in KeyVals
    /\ LET r == key_pressed(actions, key)
       IN  /\ IF r.execute # 0
              THEN CanExec /\ \E ok \in BOOLEAN : execute_action(r.execute, ok)
              ELSE /\ execLog' = execLog
                   /\ quit' = (quit \/ r.quit)
           /\ lastEvent' = Event("key", key, r.matched, r.ret)
    /\ UNCHANGED <<actions, dialogs, layoutVars, themeVars>>

Next ==
    \/ \E i \in 1..MaxActions : Click(i)
    \/ \E d \in 1..MaxActions : Cancel(d)
    \/ \E d \in 1..MaxActions : Confirm(d)
    \/ \E key \in KeyVals : KeyPress(key)

Spec == Init /\ [][Next]_vars


(* ------------------------------- startup ------------------------------ *)

\* The activate closure of main(): DepartureApp::new and show().  show()
\* calls get_colors()?: on Err it returns at once, nothing is built and the
\* closure calls app.quit().  On Ok it goes on, in the same callback, to
\* create_main_layout, to the key controller and to window.present().  A
\* panic of create_grid_layout ends the process inside the callback: no
\* window is presented and app.quit() is not called.
Activate ==
    /\ colors.status = "pending"
    /\ plan.status = "pending"
    /\ colors' = get_colors(theme, env)
    /\ IF colors'.status = "err"
       THEN quit' = TRUE /\ plan' = plan
       ELSE quit' = quit /\ plan' = create_main_layout(actions, layout)
    /\ UNCHANGED <<actions, layout, theme, env, dialogs, execLog, lastEvent>>

(* ------------------------- layout construction ------------------------- *)

LayoutInit ==
    /\ \E n \in 0..MaxLayoutActions : actions = LayoutActions(n)
    /\ layout \in LayoutConfig
    /\ plan = NoPlan
    /\ theme = DefaultTheme
    /\ env = DefaultEnv
    /\ colors = NoResult
    /\ dialogs = <<>>
    /\ quit = FALSE
    /\ execLog = <<>>
    /\ lastEvent = NoEvent

\* the application is activated once
LayoutNext == Activate

LayoutSpec == LayoutInit /\ [][LayoutNext]_vars


(* --------------------------- theme resolution -------------------------- *)

\* the keys parse_json_colors looks up in the "colors" object
ColorKeys ==
    {"surface", "background", "primary", "secondary", "tertiary", "on_surface",
     "on_background", "text", "error", "danger"}

\* the keys parse_json_colors looks up in the root object
RootKeys == {"background", "primary", "secondary", "text", "danger"}

ValueKinds ==
    {"string", "hex_object", "object_hex_not_string", "object_no_hex", "other"}

\* the value of the given kind at the given place of a document; its string
\* names the place, so that a resolved color tells where it was read
MemberValue(path, key, kind) ==
    CASE kind = "string" -> JString(<<path, key>>)
      [] kind = "hex_object" -> JHexObject(<<path, key, "hex">>)
      [] kind = "object_hex_not_string" -> JBadHexObject
      [] kind = "object_no_hex" -> JPlainObject
      [] OTHER -> JOther

\* the objects at path with at most n members, their keys among keys
Objects(path, keys, n) ==
    UNION {{[k \in D |-> MemberValue(path, k, f[k])] : f \in [D -> ValueKinds]} :
              D \in {S \in SUBSET keys : Cardinality(S) <= n}}

\* documents with a "colors" object that has a "primary" member
NestedDocs ==
    {JsonDoc(root,
             "object",
             [k \in DOMAIN o \cup {"primary"} |->
                 IF k = "primary" THEN MemberValue("colors", k, pk) ELSE o[k]]) :
        root \in {EmptyObject, [k \in {"background"} |-> MemberValue("root", k, "string")]},
        o \in Objects("colors", ColorKeys \ {"primary"}, MaxJsonEntries),
        pk \in ValueKinds}

\* documents without "colors.primary": no "colors", a "colors" that is no
\* object, or a "colors" object without "primary"
FlatDocs ==
    {JsonDoc(root, c[1], c[2]) :
        root \in Objects("root", RootKeys, MaxJsonEntries),
        c \in {<<"absent", EmptyObject>>, <<"other", EmptyObject>>} \cup
              {<<"object", o>> : o \in Objects("colors", {"background"}, 1)}}

\* texts of tokens
TextDocs == {TextDoc(str) : str \in SeqsUpTo(Tokens, MaxContentLen)}

\* the theme configurations whose source reads a text
ReadingThemes ==
    {[source |-> "file", manual_colors |-> <<>>, file_path |-> Some("theme.json"),
      command |-> <<>>],
     [source |-> "command", manual_colors |-> <<>>, file_path |-> <<>>,
      command |-> Some("matugen")]}

\* every configuration in every environment with a short text, and the
\* reading configurations in a working environment with every text
ThemeInit ==
    /\ \/ /\ theme \in ThemeConfig
          /\ env \in [file_exists : BOOLEAN, read_ok : BOOLEAN, spawn_ok : BOOLEAN,
                      exit_ok : BOOLEAN, utf8_ok : BOOLEAN,
                      content : {TextDoc(<<>>), TextDoc(<<"primary", "=", "#">>)}]
       \/ /\ theme \in ReadingThemes
          /\ \/ \E content \in NestedDocs : env = EnvWith(content)
             \/ \E content \in FlatDocs : env = EnvWith(content)
             \/ \E content \in TextDocs : env = EnvWith(content)
    /\ colors = NoResult
    /\ actions = <<>>
    /\ layout = DefaultLayout
    /\ plan = NoPlan
    /\ dialogs = <<>>
    /\ quit = FALSE
    /\ execLog = <<>>
    /\ lastEvent = NoEvent

\* the application is activated once
ThemeNext == Activate

ThemeSpec == ThemeInit /\ [][ThemeNext]_vars

(* ------------------------- claims C1 .. C10 ---------------------------- *)

\* the pressed key has a name whose lowercase form equals the lowercased
\* keybind of the i-th configured action
KeyEqualsKeybind(i, key) ==
    /\ key # NoNameKey
    /\ actions[i].keybind # None
    /\ to_lowercase(actions[i].keybind) = to_lowercase(key)

\* the configured actions whose keybind equals the key
MatchingActions(key) == {i \in 1..Len(actions) : KeyEqualsKeybind(i, key)}

\* i is the first action, in configured order, whose keybind equals the key
IsFirstMatch(i, key) ==
    i \in MatchingActions(key) /\ \A j \in MatchingActions(key) : i <= j

\* the step is a press of the key on the main window
KeyStep(key) == lastEvent'.kind = "key" /\ lastEvent'.key = key

\* the entries the step adds to the log of executor invocations
NewExecs == {n \in 1..Len(execLog') : n > Len(execLog)}

\* C1: a press of the reserved close key (Escape) always terminates the
\* application and executes no action, whatever keybinds are configured.
C1_EscapeAlwaysTerminates ==
    [][KeyStep(Escape) => (quit' /\ execLog' = execLog)]_vars

\* C2: an action with confirm=true is handed to the executor only by the
\* Confirm button of a dialog that is open for that same action, and such a
\* dialog is opened only by a click on that action.
C2_ConfirmActionsOnlyViaDialog ==
    [][/\ \A n \in NewExecs :
             actions[execLog'[n].action].confirm =>
                 /\ lastEvent'.kind = "confirm"
                 /\ lastEvent'.idx = execLog'[n].action
                 /\ \E d \in 1..Len(dialogs) : dialogs[d] = execLog'[n].action
       /\ Len(dialogs') > Len(dialogs) =>
             /\ lastEvent'.kind = "click"
             /\ actions[lastEvent'.idx].confirm
             /\ dialogs' = Append(dialogs, lastEvent'.idx)
             /\ NewExecs = {}]_vars

C2_Witness ==
    /\ lastEvent.kind = "confirm"
    /\ execLog # <<>>
    /\ execLog[Len(execLog)].action = lastEvent.idx
    /\ actions[lastEvent.idx].confirm
    /\ actions[lastEvent.idx].keybind # None

\* C3: with no confirmation pending, a key press whose first matching action
\* has confirm=true opens the confirmation for that action.
C3_KeybindRequestsConfirmation ==
    [][\A key \in KeyVals : \A i \in 1..Len(actions) :
          (KeyStep(key) /\ dialogs = <<>> /\ IsFirstMatch(i, key)
              /\ actions[i].confirm)
          => dialogs' = <<i>>]_vars

\* C4: Confirm on the pending confirmation of action a closes it (the gate
\* is Idle again) and invokes the executor exactly once, with a.
C4_ConfirmExecutesPendingOnce ==
    [][lastEvent'.kind = "confirm" =>
          /\ dialogs = <<lastEvent'.idx>>
          /\ dialogs' = <<>>
          /\ \E ok \in BOOLEAN :
                execLog' = Append(execLog, [action |-> dialogs[1], ok |-> ok])]_vars

C4_Witness ==
    /\ lastEvent.kind = "confirm"
    /\ dialogs = <<>>
    /\ Len(execLog) = 1
    /\ execLog[1].action = lastEvent.idx

\* C5: Cancel on the pending confirmation closes it and does nothing else:
\* no executor invocation, no termination, the action list unchanged.
C5_CancelHasNoSideEffect ==
    [][lastEvent'.kind = "cancel" =>
          /\ dialogs = <<lastEvent'.idx>>
          /\ dialogs' = <<>>
          /\ execLog' = execLog
          /\ quit' = FALSE
          /\ actions' = actions]_vars

C5_Witness ==
    /\ lastEvent.kind = "cancel"
    /\ dialogs = <<>>
    /\ execLog = <<>>
    /\ ~quit

\* C6: at most one confirmation is open at any time, and an open
\* confirmation is never replaced: it only goes away by Cancel or Confirm.
C6_AtMostOneConfirmation ==
    /\ [](Len(dialogs) <= 1)
    /\ [][(dialogs # <<>> /\ dialogs' # dialogs) =>
             (dialogs' = <<>> /\ lastEvent'.kind \in {"cancel", "confirm"})]_vars

C6_Witness ==
    /\ Len(dialogs) = 1
    /\ ~quit
    /\ \E i \in 1..Len(actions) : i # dialogs[1] /\ actions[i].confirm

\* C7: a failed spawn terminates nothing and launches nothing else, and the
\* handlers keep accepting clicks, key presses and confirmation choices.
C7_SpawnFailureIsRecovered ==
    /\ [][\A n \in NewExecs : ~execLog'[n].ok =>
             (quit' = FALSE /\ Len(execLog') = Len(execLog) + 1)]_vars
    /\ []((execLog # <<>> /\ ~execLog[Len(execLog)].ok /\ ~quit) =>
             /\ (dialogs = <<>> /\ CanExec) =>
                   /\ \A key \in KeyVals : ENABLED KeyPress(key)
                   /\ \A i \in 1..Len(actions) : ENABLED Click(i)
             /\ (dialogs # <<>> /\ CanExec) =>
                   /\ ENABLED Cancel(1)
                   /\ ENABLED Confirm(1))

C7_Witness ==
    /\ Len(execLog) = 2
    /\ ~execLog[1].ok
    /\ execLog[2].ok
    /\ quit

\* C8: a successful spawn is followed by the termination signal and nothing
\* is executed after it: a successful launch is the last entry of the log.
C8_SingleActionThenExit ==
    /\ [](\A n \in 1..Len(execLog) : execLog[n].ok => (quit /\ n = Len(execLog)))
    /\ [][quit => execLog' = execLog]_vars

C8_Witness ==
    /\ quit
    /\ Len(execLog) = 2
    /\ execLog[2].ok

\* C9: a key press selects the first action, in configured order, whose
\* lowercased keybind equals the lowercased key, and no other; selected
\* with confirm=false it is the one action handed to the executor.
C9_FirstMatchWins ==
    [][\A key \in KeyVals : KeyStep(key) =>
          /\ MatchingActions(key) = {} => lastEvent'.idx = 0
          /\ \A i \in 1..Len(actions) : IsFirstMatch(i, key) =>
                /\ lastEvent'.idx = i
                /\ ~actions[i].confirm =>
                      \E ok \in BOOLEAN :
                          execLog' = Append(execLog, [action |-> i, ok |-> ok])
          /\ \A n \in NewExecs :
                IsFirstMatch(execLog'[n].action, key) /\ n = Len(execLog) + 1]_vars

C9_Witness ==
    /\ lastEvent.kind = "key"
    /\ lastEvent.key = "L"
    /\ Len(actions) = 2
    /\ actions[1].keybind = "l"
    /\ actions[2].keybind = "L"
    /\ ~actions[1].confirm
    /\ execLog = <<[action |-> 1, ok |-> FALSE]>>

\* C10: a press of a key that is not Escape and equals no configured keybind
\* is ignored: nothing executed, no confirmation opened or closed, no
\* termination, and the event is left to propagate.
C10_UnmatchedKeyIgnored ==
    [][\A key \in KeyVals \ {Escape} :
          (KeyStep(key) /\ MatchingActions(key) = {}) =>
              /\ execLog' = execLog
              /\ dialogs' = dialogs
              /\ quit' = quit
              /\ lastEvent'.idx = 0
              /\ lastEvent'.ret = "Proceed"]_vars

C10_Witness ==
    /\ lastEvent.kind = "key"
    /\ lastEvent.key = "x"
    /\ lastEvent.ret = "Proceed"
    /\ Len(actions) = 2
    /\ actions[1].keybind = None
    /\ actions[2].keybind = "l"
    /\ execLog = <<>>
    /\ ~quit

(* ------------------------- claims C11, C12, C17 ------------------------ *)

\* the concatenation of the groups of a plan, in order
RECURSIVE Concat(_)
Concat(groups) ==
    IF groups = <<>> THEN <<>> ELSE Head(groups) \o Concat(Tail(groups))

\* the layout has been built (or building it has failed)
Planned == plan.status # "pending"

\* the column count of the grid: the configured one, 3 when it is absent
GridColumns == IF layout.columns = <<>> THEN 3 ELSE layout.columns[1]

\* C11: a grid of n actions with column count c >= 1 (3 when absent) has
\* ceil(n / c) rows, every row but the last holds c actions, the last holds
\* between 1 and c, and the rows are consecutive slices of the action list.
C11_GridRows ==
    (Planned /\ layout.layout_type = "grid" /\ GridColumns >= 1) =>
        LET n == Len(actions)
            c == GridColumns
            rows == plan.groups
        IN  /\ plan.status = "ok"
            /\ Len(rows) = (n + c - 1) \div c
            /\ \A r \in 1..Len(rows) :
                  /\ r < Len(rows) => Len(rows[r]) = c
                  /\ Len(rows[r]) \in 1..c
                  /\ \A k \in 1..Len(rows[r]) : rows[r][k] = (r - 1) * c + k

C11_Witness ==
    /\ Planned
    /\ layout.layout_type = "grid"
    /\ layout.columns = <<>>
    /\ Len(actions) = 7
    /\ Len(plan.groups) = 3
    /\ Len(plan.groups[1]) = 3
    /\ Len(plan.groups[2]) = 3
    /\ plan.groups[3] = <<7>>

\* C12: for every layout kind and action list the plan is built, its groups
\* concatenated are the action list in configured order, and every kind
\* other than grid gives a single group.
C12_PlanPreservesActions ==
    Planned =>
        /\ plan.status = "ok"
        /\ Concat(plan.groups) = [i \in 1..Len(actions) |-> i]
        /\ layout.layout_type # "grid" => Len(plan.groups) = 1

\* C17: with columns = 0 the grid is built without error and every action is
\* in a row of its own, in configured order.
C17_ZeroColumnsMeansOne ==
    (Planned /\ layout.layout_type = "grid" /\ layout.columns = Some(0)) =>
        /\ plan.status = "ok"
        /\ plan.groups = [i \in 1..Len(actions) |-> <<i>>]

(* ------------------------------ claim C18 ------------------------------ *)

\* C18: every executor invocation is caused by exactly one event on a
\* configured action: a click or a keybind press on an action with
\* confirm=false, or Confirm on the dialog opened for an action with
\* confirm=true; one event invokes the executor at most once.
C18_EveryLaunchHasOneEvent ==
    [][/\ Len(execLog') >= Len(execLog)
       /\ SubSeq(execLog', 1, Len(execLog)) = execLog
       /\ Cardinality(NewExecs) <= 1
       /\ \A n \in NewExecs :
             LET a == execLog'[n].action
             IN  /\ a \in 1..Len(actions)
                 /\ \/ /\ lastEvent'.kind = "click"
                       /\ lastEvent'.idx = a
                       /\ ~actions[a].confirm
                    \/ /\ lastEvent'.kind = "key"
                       /\ KeyEqualsKeybind(a, lastEvent'.key)
                       /\ ~actions[a].confirm
                    \/ /\ lastEvent'.kind = "confirm"
                       /\ lastEvent'.idx = a
                       /\ \E d \in 1..Len(dialogs) : dialogs[d] = a
                       /\ actions[a].confirm]_vars

C18_Witness ==
    /\ Len(execLog) = 2
    /\ Len(actions) = 2
    /\ execLog[1].action # execLog[2].action
    /\ actions[execLog[1].action].confirm
    /\ lastEvent.kind = "click"
    /\ lastEvent.idx = execLog[2].action
    /\ execLog[2].ok

(* ---------------------------- claims C13 .. C16 ------------------------ *)

\* get_colors has returned
Resolved == colors.status # "pending"

\* get_colors has returned and had a text to extract the colors from
Extracted ==
    /\ Resolved
    /\ \/ /\ theme.source = "file"
          /\ theme.file_path # <<>> /\ env.file_exists /\ env.read_ok
       \/ /\ theme.source = "command"
          /\ theme.command # <<>> /\ env.spawn_ok /\ env.exit_ok /\ env.utf8_ok

Fields == {"background", "primary", "secondary", "text", "danger"}

\* C13 as stated: a theme whose source lacks its required field fails with
\* MissingManualColors (manual), FileNotFound (file without a usable path:
\* none configured, or one that does not exist) or MissingCommand (command).
C13_MissingFieldErrors ==
    Resolved =>
        /\ (theme.source = "manual" /\ theme.manual_colors = <<>>)
              => colors = Err("MissingManualColors")
        /\ (theme.source = "file" /\ (theme.file_path = <<>> \/ ~env.file_exists))
              => colors = Err("FileNotFound")
        /\ (theme.source = "command" /\ theme.command = <<>>)
              => colors = Err("MissingCommand")

\* C13 amended: as above, but a file source without a configured path fails
\* with MissingFilePath; FileNotFound is the error of a configured path that
\* does not exist.
C13_MissingFieldErrorsAmended ==
    Resolved =>
        /\ (theme.source = "manual" /\ theme.manual_colors = <<>>)
              => colors = Err("MissingManualColors")
        /\ (theme.source = "file" /\ theme.file_path = <<>>)
              => colors = Err("MissingFilePath")
        /\ (theme.source = "file" /\ theme.file_path # <<>> /\ ~env.file_exists)
              => colors = Err("FileNotFound")
        /\ (theme.source = "command" /\ theme.command = <<>>)
              => colors = Err("MissingCommand")

C13_Witness ==
    /\ Resolved
    /\ theme.source = "file"
    /\ theme.file_path = <<>>
    /\ env.file_exists
    /\ theme.manual_colors = <<>>
    /\ colors = Err("MissingFilePath")

\* C14: whatever the text, extraction succeeds and none of the five colors
\* is the empty string.
C14_ExtractorNeverEmpty ==
    Extracted =>
        /\ colors.status = "ok"
        /\ \A f \in Fields : colors.colors[f] # <<>>

\* the candidate keys of each color in a "colors" object, in order
Candidates ==
    [background |-> <<"surface", "background">>,
     primary |-> <<"primary">>,
     secondary |-> <<"secondary", "tertiary">>,
     text |-> <<"on_surface", "on_background", "text">>,
     danger |-> <<"error", "danger">>]

\* the positions of the candidates of f that are members of obj and are a
\* string or an object with a string "hex"
Resolving(obj, f) ==
    {i \in 1..Len(Candidates[f]) :
        /\ Candidates[f][i] \in DOMAIN obj
        /\ obj[Candidates[f][i]].kind \in {"string", "hex_object"}}

Least(S) == CHOOSE i \in S : \A j \in S : i <= j

Greatest(S) == CHOOSE i \in S : \A j \in S : j <= i

\* C15: for a document with a "colors" object that has a "primary" member,
\* every color is the value of its first resolving candidate, the default
\* when no candidate resolves.
C15_NestedCandidatePriority ==
    (Extracted /\ env.content.form = "json" /\ env.content.colors_kind = "object"
        /\ "primary" \in DOMAIN env.content.colors) =>
        /\ colors.status = "ok"
        /\ \A f \in Fields :
              LET obj == env.content.colors
                  R == Resolving(obj, f)
              IN  colors.colors[f] =
                      IF R = {} THEN DefaultColors[f]
                      ELSE obj[Candidates[f][Least(R)]].str

C15_Witness ==
    /\ Extracted
    /\ env.content.form = "json"
    /\ DOMAIN env.content.colors = {"primary", "surface", "background"}
    /\ env.content.colors["primary"].kind = "hex_object"
    /\ env.content.colors["surface"].kind = "object_hex_not_string"
    /\ env.content.colors["background"].kind = "string"
    /\ colors.colors.background = <<"colors", "background">>
    /\ colors.colors.primary = <<"colors", "primary", "hex">>
    /\ colors.colors.text = DefaultColors.text

\* the part of str between its first and its last token outside set
Inner(str, set) ==
    LET keep == {i \in 1..Len(str) : str[i] \notin set}
    IN  IF keep = {} THEN <<>> ELSE SubSeq(str, Least(keep), Greatest(keep))

\* the lines of the text, each as the pair of its first and last position
LineSpans(str) ==
    {sp \in (1..Len(str)) \X (1..Len(str)) :
        /\ sp[1] <= sp[2]
        /\ \A i \in sp[1]..sp[2] : str[i] # Newline
        /\ sp[1] = 1 \/ str[sp[1] - 1] = Newline
        /\ sp[2] = Len(str) \/ str[sp[2] + 1] = Newline}

\* the line at span sp is not blank, does not begin with '#', has a '=' and
\* the trimmed, lowercased text before the first '=' is the name f
Assigns(str, sp, f) ==
    LET line == SubSeq(str, sp[1], sp[2])
        eqs == {i \in 1..Len(line) : line[i] = "="}
    IN  /\ Inner(line, {Space}) # <<>>
        /\ line[1] # "#"
        /\ eqs # {}
        /\ LET key == Inner(SubSeq(line, 1, Least(eqs) - 1), {Space})
           IN  Len(key) = 1 /\ lower_token(key[1]) = f

\* the trimmed, quote-stripped text after the first '=' of the line at sp
AssignedValue(str, sp) ==
    LET line == SubSeq(str, sp[1], sp[2])
        eqs == {i \in 1..Len(line) : line[i] = "="}
        value == SubSeq(line, Least(eqs) + 1, Len(line))
    IN  Inner(Inner(Inner(value, {Space}), {"\""}), {"'"})

\* C16: for a text that is no structured document, every color named by a
\* line `key = value` (not blank, not beginning with '#', key one of the five
\* names after trimming and lowercasing) is the trimmed, quote-stripped value
\* of the last such line, and every other color is its default.
C16_LineParser ==
    (Extracted /\ env.content.form = "text" /\ ~is_json_string(env.content.tokens)) =>
        /\ colors.status = "ok"
        /\ \A f \in Fields :
              LET str == env.content.tokens
                  A == {sp \in LineSpans(str) : Assigns(str, sp, f)}
              IN  colors.colors[f] =
                      IF A = {} THEN DefaultColors[f]
                      ELSE AssignedValue(str, CHOOSE sp \in A :
                                                  \A other \in A : other[1] <= sp[1])

C16_Witness ==
    /\ Extracted
    /\ env.content.tokens = <<"DANGER", "=", "\"", "#", "\"">>
    /\ colors.colors.danger = <<"#">>
    /\ colors.colors.primary = DefaultColors.primary
    /\ colors.colors.background = DefaultColors.background

====
